---- MODULE Spec2Model ----
(***************************************************************************)
(* Structured-output extraction of metagpt/utils/common.py: OutputParser   *)
(* and CodeParser.  Texts are sequences of one-character strings.  Every   *)
(* extractor is a pure function of its arguments; a call is one action     *)
(* that records the returned value, the exception raised (if any) and the  *)
(* log entries emitted.                                                    *)
(***************************************************************************)
EXTENDS Integers, Sequences, FiniteSets, TLC

VARIABLES
    doc,      \* the text handed to the extractor
    pc,       \* "idle" before a call, "done" after it
    op,       \* the extractor that was called
    args,     \* its other arguments: [lang, block, kind]
    ret,      \* the value returned: [t |-> type tag, v |-> payload]
    raised,   \* the exception that left the call, "none" when it returned
    log,      \* logger.error entries emitted by the call, in order
    prev,     \* the call before this one: [doc, ret] (re-application)
    again,    \* TRUE when doc is the output of a previous call of the same extractor
    calls,    \* the frames of the extractor calls running concurrently, one per task
    review    \* the state of WriteCodeReview.run

vars == <<doc, pc, op, args, ret, raised, log, prev, again, calls, review>>

(***************************************************************************)
(* Bounds of the model.                                                    *)
(***************************************************************************)
MaxBlockTok == 6
MaxCodeTok == 6
MaxStructLen == 5
MaxListTok == 5
MaxFieldTok == 5
MaxDataTok == 4
MaxScalarTok == 5
MaxValueTok == 3
MaxTaskTok == 2
MaxReviewRounds == 3
MaxSectionTok == 4

(***************************************************************************)
(* Python values.                                                          *)
(***************************************************************************)
None == [t |-> "None", v |-> <<>>]
Str(s) == [t |-> "str", v |-> s]
Dict(d) == [t |-> "dict", v |-> d]
NoCall == [doc |-> <<>>, ret |-> None]
NoArgs == [lang |-> <<>>, block |-> <<>>, kind |-> "none"]

(***************************************************************************)
(* str helpers.                                                            *)
(***************************************************************************)
WS == {" ", "\n"}

RECURSIVE Flatten(_)
Flatten(ss) == IF ss = <<>> THEN <<>> ELSE Head(ss) \o Flatten(Tail(ss))

\* text is made of at most n tokens of toks
IsTokenText(text, toks, n) ==
    \E k \in 0..n : \E f \in [1..k -> toks] : text = Flatten(f)

StartsWithAt(s, p, i) ==
    /\ i >= 1
    /\ i + Len(p) - 1 <= Len(s)
    /\ SubSeq(s, i, i + Len(p) - 1) = p

\* str.find(p, from): the least index >= from where p occurs, 0 when none
Find(s, p, from) ==
    LET hits == {i \in from..Len(s) + 1 : StartsWithAt(s, p, i)}
    IN  IF hits = {} THEN 0 ELSE CHOOSE i \in hits : \A j \in hits : i <= j

\* str.rfind(p): the greatest index where p occurs, 0 when none
RFind(s, p) ==
    LET hits == {i \in 1..Len(s) + 1 : StartsWithAt(s, p, i)}
    IN  IF hits = {} THEN 0 ELSE CHOOSE i \in hits : \A j \in hits : i >= j

Contains(s, p) == Find(s, p, 1) # 0

\* str.strip()
Strip(s) ==
    LET keep == {i \in 1..Len(s) : s[i] \notin WS}
    IN  IF keep = {} THEN <<>>
        ELSE SubSeq(s, CHOOSE i \in keep : \A j \in keep : i <= j,
                       CHOOSE i \in keep : \A j \in keep : i >= j)

\* str.split(sep): left to right, non-overlapping
RECURSIVE Split(_, _)
Split(s, sep) ==
    LET i == Find(s, sep, 1)
    IN  IF i = 0 THEN <<s>>
        ELSE <<SubSeq(s, 1, i - 1)>> \o Split(SubSeq(s, i + Len(sep), Len(s)), sep)

\* str.split(sep, 1)
SplitFirst(s, sep) ==
    LET i == Find(s, sep, 1)
    IN  IF i = 0 THEN <<s>>
        ELSE <<SubSeq(s, 1, i - 1), SubSeq(s, i + Len(sep), Len(s))>>

(***************************************************************************)
(* dict: insertion-ordered sequence of <<key, value>>.                     *)
(***************************************************************************)
DictKeys(d) == {d[i][1] : i \in 1..Len(d)}

DictGet(d, k) == d[CHOOSE i \in 1..Len(d) : d[i][1] = k][2]

\* d[k] = v
DictSet(d, k, v) ==
    IF k \in DictKeys(d)
    THEN [i \in 1..Len(d) |-> IF d[i][1] = k THEN <<k, v>> ELSE d[i]]
    ELSE Append(d, <<k, v>>)

(***************************************************************************)
(* OutputParser.parse_blocks                                               *)
(***************************************************************************)
Returned(value, logs) == [raised |-> "none", ret |-> value, log |-> logs]
Raised(exc, logs) == [raised |-> exc, ret |-> None, log |-> logs]

\* the title/body of one block of OutputParser.parse_blocks, or the exception
OutputBlockEntry(block) ==
    LET parts == SplitFirst(block, <<"\n">>)
    IN  IF Len(parts) # 2 THEN [raised |-> "ValueError"]
        ELSE LET block_title == parts[1]
                 block_content == parts[2]
             IN  IF block_title = <<>> THEN [raised |-> "IndexError"]
                 ELSE LET title == IF block_title[Len(block_title)] = ":"
                                   THEN SubSeq(block_title, 1, Len(block_title) - 1)
                                   ELSE block_title
                      IN  [raised |-> "none", key |-> Strip(title),
                           value |-> Strip(block_content)]

RECURSIVE OutputBlocksLoop(_, _, _)
OutputBlocksLoop(blocks, i, block_dict) ==
    IF i > Len(blocks) THEN Returned(Dict(block_dict), <<>>)
    ELSE IF Strip(blocks[i]) = <<>> THEN OutputBlocksLoop(blocks, i + 1, block_dict)
    ELSE LET e == OutputBlockEntry(blocks[i])
         IN  IF e.raised # "none" THEN Raised(e.raised, <<>>)
             ELSE OutputBlocksLoop(blocks, i + 1, DictSet(block_dict, e.key, e.value))

\* parse_blocks without the blank-block test of line 69
RECURSIVE OutputBlocksLoopNoSkip(_, _, _)
OutputBlocksLoopNoSkip(blocks, i, block_dict) ==
    IF i > Len(blocks) THEN Returned(Dict(block_dict), <<>>)
    ELSE LET e == OutputBlockEntry(blocks[i])
         IN  IF e.raised # "none" THEN Raised(e.raised, <<>>)
             ELSE OutputBlocksLoopNoSkip(blocks, i + 1, DictSet(block_dict, e.key, e.value))

OutputParser_parse_blocks_NoSkip(text) ==
    OutputBlocksLoopNoSkip(Split(text, <<"#", "#">>), 1, <<>>)

OutputParser_parse_blocks(text) ==
    OutputBlocksLoop(Split(text, <<"#", "#">>), 1, <<>>)

(***************************************************************************)
(* CodeParser.parse_blocks                                                 *)
(***************************************************************************)
CodeBlockEntry(block) ==
    LET parts == SplitFirst(block, <<"\n">>)
    IN  IF Len(parts) # 2
        THEN [key |-> Strip(block), value |-> <<>>]
        ELSE [key |-> Strip(parts[1]), value |-> Strip(parts[2])]

RECURSIVE CodeBlocksLoop(_, _, _)
CodeBlocksLoop(blocks, i, block_dict) ==
    IF i > Len(blocks) THEN block_dict
    ELSE IF Strip(blocks[i]) = <<>> THEN CodeBlocksLoop(blocks, i + 1, block_dict)
    ELSE LET e == CodeBlockEntry(blocks[i])
         IN  CodeBlocksLoop(blocks, i + 1, DictSet(block_dict, e.key, e.value))

CodeParser_parse_blocks(text) ==
    Returned(Dict(CodeBlocksLoop(Split(text, <<"#", "#">>), 1, <<>>)), <<>>)

(***************************************************************************)
(* re.search of the fence patterns (re.DOTALL).                            *)
(*   with a language:  FENCE{lang}\s+(.*?)FENCE                            *)
(*   without:          FENCE.*?\s+(.*?)FENCE                               *)
(* where FENCE is the triple backtick.  The backtick character is written  *)
(* "~" here (a TLA+ string cannot hold a backtick).  A match is            *)
(* [found, at, group]: the leftmost start, and group(1).                   *)
(***************************************************************************)
Fence == <<"~", "~", "~">>

NoMatch == [found |-> FALSE, at |-> 0, group |-> <<>>]

\* the end of the whitespace run \s+ starting at i (greedy)
SkipWS(text, i) ==
    LET rest == {j \in i..Len(text) : text[j] \notin WS}
    IN  IF rest = {} THEN Len(text) + 1 ELSE CHOOSE j \in rest : \A k \in rest : j <= k

\* (.*?)FENCE from position i: the group ends at the nearest fence
LazyGroup(text, at, i) ==
    LET close == Find(text, Fence, i)
    IN  IF close = 0 THEN NoMatch
        ELSE [found |-> TRUE, at |-> at, group |-> SubSeq(text, i, close - 1)]

\* the pattern tried at start position i, the tag being lang
LangMatchAt(text, lang, i) ==
    LET tagEnd == i + 3 + Len(lang)
    IN  IF /\ StartsWithAt(text, Fence \o lang, i)
           /\ tagEnd <= Len(text)
           /\ text[tagEnd] \in WS
        THEN LazyGroup(text, i, SkipWS(text, tagEnd))
        ELSE NoMatch

\* the pattern tried at start position i, the tag being .*? (lazy, any characters)
AnyMatchAt(text, i) ==
    LET blanks == {j \in i + 3..Len(text) : text[j] \in WS}
    IN  IF StartsWithAt(text, Fence, i) /\ blanks # {}
        THEN LazyGroup(text, i, SkipWS(text, CHOOSE j \in blanks : \A k \in blanks : j <= k))
        ELSE NoMatch

\* re.search: the match at the leftmost start position
SearchLang(text, lang) ==
    LET starts == {i \in 1..Len(text) : LangMatchAt(text, lang, i).found}
    IN  IF starts = {} THEN NoMatch
        ELSE LangMatchAt(text, lang, CHOOSE i \in starts : \A j \in starts : i <= j)

SearchAny(text) ==
    LET starts == {i \in 1..Len(text) : AnyMatchAt(text, i).found}
    IN  IF starts = {} THEN NoMatch
        ELSE AnyMatchAt(text, CHOOSE i \in starts : \A j \in starts : i <= j)

(***************************************************************************)
(* OutputParser.parse_code                                                 *)
(***************************************************************************)
OutputParser_parse_code(text, lang) ==
    LET match == IF lang # <<>> THEN SearchLang(text, lang) ELSE SearchAny(text)
    IN  IF match.found THEN Returned(Str(match.group), <<>>)
        ELSE Returned(Str(<<>>), <<"No code block found">>)

(***************************************************************************)
(* CodeParser.parse_block, CodeParser.parse_code                           *)
(***************************************************************************)
RECURSIVE FirstBlockWith(_, _, _)
FirstBlockWith(blocks, block, i) ==
    IF i > Len(blocks) THEN <<>>
    ELSE IF Contains(blocks[i][1], block) THEN blocks[i][2]
    ELSE FirstBlockWith(blocks, block, i + 1)

\* parse_block testing block == k in place of block in k
RECURSIVE FirstBlockEqual(_, _, _)
FirstBlockEqual(blocks, block, i) ==
    IF i > Len(blocks) THEN <<>>
    ELSE IF blocks[i][1] = block THEN blocks[i][2]
    ELSE FirstBlockEqual(blocks, block, i + 1)

CodeParser_parse_block_Equal(block, text) ==
    FirstBlockEqual(CodeParser_parse_blocks(text).ret.v, block, 1)

CodeParser_parse_block(block, text) ==
    FirstBlockWith(CodeParser_parse_blocks(text).ret.v, block, 1)

\* CodeParser.parse_code with the fallback of the lenient extractor
CodeParser_parse_code_EmptyFallback(block, text, lang) ==
    LET searched == IF block # <<>> THEN CodeParser_parse_block(block, text) ELSE text
        match == SearchLang(searched, lang)
    IN  IF match.found THEN Returned(Str(match.group), <<>>)
        ELSE Returned(Str(<<>>), <<"pattern not match following text", "text">>)

\* the pattern of CodeParser.parse_code always names the language: FENCE{lang}\s+(.*?)FENCE
CodeParser_parse_code(block, text, lang) ==
    LET searched == IF block # <<>> THEN CodeParser_parse_block(block, text) ELSE text
        match == SearchLang(searched, lang)
    IN  IF match.found THEN Returned(Str(match.group), <<>>)
        ELSE Returned(Str(searched), <<"pattern not match following text", "text">>)

\* the extractor named by op, applied to text
ApplyCode(name, a, text) ==
    IF name = "OutputParser.parse_code"
    THEN OutputParser_parse_code(text, a.lang)
    ELSE CodeParser_parse_code(a.block, text, a.lang)

(***************************************************************************)
(* ast.literal_eval, for texts over brackets, braces, comma, colon, the    *)
(* digit 1, the letter x, blank and line break.  The text is parsed as a   *)
(* Python expression (SyntaxError when it is none) and the tree converted  *)
(* left to right: a name, a subscript or a comparison is a malformed node  *)
(* (ValueError),                                                           *)
(* an unhashable set element or dict key is a TypeError.  extract_struct    *)
(* hands over a slice that starts and ends with a bracket, so blanks at    *)
(* either end of the whole text are not modelled.  The grammar rules are   *)
(* the cases of one recursive operator.                                    *)
(***************************************************************************)
Node(k, c, s) == [k |-> k, c |-> c, s |-> s]
Fail == [ok |-> FALSE, pos |-> 0, node |-> Node("None", <<>>, <<>>)]
Ok(pos, node) == [ok |-> TRUE, pos |-> pos, node |-> node]

\* blanks between tokens; line breaks too inside brackets (nl)
SkipBlank(s, i, nl) ==
    LET skip == IF nl THEN {" ", "\n"} ELSE {" "}
        rest == {j \in i..Len(s) : s[j] \notin skip}
    IN  IF rest = {} THEN Len(s) + 1 ELSE CHOOSE j \in rest : \A k \in rest : j <= k

\* the character of the next token, "$" at the end of the text
Peek(s, i, nl) ==
    LET j == SkipBlank(s, i, nl) IN IF j > Len(s) THEN "$" ELSE s[j]

After(s, i, nl) == SkipBlank(s, i, nl) + 1

\* the end of the run of characters of cs starting at i
RunEnd(s, i, cs) ==
    LET rest == {j \in i..Len(s) : s[j] \notin cs}
    IN  IF rest = {} THEN Len(s) + 1 ELSE CHOOSE j \in rest : \A k \in rest : j <= k

StartsExpr(c) == c \in {"1", "x", "[", "{"}

\* the next token is "=="
EqualsAt(s, i, nl) ==
    LET j == SkipBlank(s, i, nl)
    IN  j + 1 <= Len(s) /\ s[j] = "=" /\ s[j + 1] = "="

RECURSIVE Parse(_, _, _, _, _, _)

\* One rule of the expression grammar, applied at position i0.  nl: line
\* breaks are blanks (inside brackets); close: the closing token of the
\* display being read; acc: the nodes read so far (for "trailers", the node
\* the subscripts apply to).
Parse(rule, s, i0, nl, close, acc) ==
    CASE rule = "atom" ->
        \* NUMBER | NAME | list display | dict or set display
        LET i == SkipBlank(s, i0, nl)
            c == Peek(s, i0, nl)
        IN  IF c = "1" THEN Ok(RunEnd(s, i, {"1"}), Node("Num", <<>>, SubSeq(s, i, RunEnd(s, i, {"1"}) - 1)))
            ELSE IF c = "x" THEN Ok(RunEnd(s, i, {"x", "1"}), Node("Name", <<>>, <<>>))
            ELSE IF c = "[" THEN
                LET items == Parse("items", s, i + 1, TRUE, "]", <<>>)
                IN  IF items.ok THEN Ok(items.pos, Node("List", items.node.c, <<>>)) ELSE Fail
            ELSE IF c = "{" THEN
                IF Peek(s, i + 1, TRUE) = "}" THEN Ok(After(s, i + 1, TRUE), Node("Dict", <<>>, <<>>))
                ELSE LET first == Parse("expr", s, i + 1, TRUE, "", <<>>)
                     IN  IF ~first.ok THEN Fail
                         ELSE IF Peek(s, first.pos, TRUE) = ":" THEN
                             LET value == Parse("expr", s, After(s, first.pos, TRUE), TRUE, "", <<>>)
                             IN  IF ~value.ok THEN Fail
                                 ELSE Parse("dictAfter", s, value.pos, TRUE, "}", <<first.node, value.node>>)
                         ELSE LET items == Parse("itemsAfter", s, first.pos, TRUE, "}", <<first.node>>)
                              IN  IF items.ok THEN Ok(items.pos, Node("Set", items.node.c, <<>>))
                                  ELSE Fail
            ELSE Fail
      [] rule = "expr" ->
        \* comparison: primary ("==" primary)*
        LET left == Parse("primary", s, i0, nl, "", <<>>)
        IN  IF ~left.ok THEN Fail
            ELSE IF EqualsAt(s, left.pos, nl)
            THEN LET right == Parse("expr", s, SkipBlank(s, left.pos, nl) + 2, nl, "", <<>>)
                 IN  IF right.ok THEN Ok(right.pos, Node("Compare", <<>>, <<>>)) ELSE Fail
            ELSE left
      [] rule = "primary" ->
        \* atom followed by subscripts
        LET atom == Parse("atom", s, i0, nl, "", <<>>)
        IN  IF atom.ok THEN Parse("trailers", s, atom.pos, nl, "", <<atom.node>>) ELSE Fail
      [] rule = "trailers" ->
        IF Peek(s, i0, nl) = "["
        THEN LET sl == Parse("slices", s, After(s, i0, nl), TRUE, "]", <<>>)
             IN  IF sl.ok
                 THEN Parse("trailers", s, sl.pos, nl, "", <<Node("Subscript", <<>>, <<>>)>>)
                 ELSE Fail
        ELSE Ok(i0, acc[1])
      [] rule = "optional" ->
        \* an optional expression
        IF StartsExpr(Peek(s, i0, TRUE)) THEN Parse("expr", s, i0, TRUE, "", <<>>)
        ELSE Ok(i0, Node("None", <<>>, <<>>))
      [] rule = "slice" ->
        \* [lower] ":" [upper] [":" [step]], or an expression
        LET lower == Parse("optional", s, i0, TRUE, "", <<>>)
        IN  IF ~lower.ok THEN Fail
            ELSE IF Peek(s, lower.pos, TRUE) # ":"
            THEN (IF StartsExpr(Peek(s, i0, TRUE)) THEN lower ELSE Fail)
            ELSE LET upper == Parse("optional", s, After(s, lower.pos, TRUE), TRUE, "", <<>>)
                 IN  IF ~upper.ok THEN Fail
                     ELSE IF Peek(s, upper.pos, TRUE) # ":" THEN upper
                     ELSE Parse("optional", s, After(s, upper.pos, TRUE), TRUE, "", <<>>)
      [] rule = "slices" ->
        \* slice ("," slice)* [","] "]"
        LET sl == Parse("slice", s, i0, TRUE, "", <<>>)
        IN  IF ~sl.ok THEN Fail
            ELSE IF Peek(s, sl.pos, TRUE) = "]" THEN Ok(After(s, sl.pos, TRUE), sl.node)
            ELSE IF Peek(s, sl.pos, TRUE) = ","
            THEN (IF Peek(s, After(s, sl.pos, TRUE), TRUE) = "]"
                  THEN Ok(After(s, After(s, sl.pos, TRUE), TRUE), sl.node)
                  ELSE Parse("slices", s, After(s, sl.pos, TRUE), TRUE, "]", <<>>))
            ELSE Fail
      [] rule = "items" ->
        \* [expression ("," expression)* [","]] close
        IF Peek(s, i0, nl) = close THEN Ok(After(s, i0, nl), Node("Items", acc, <<>>))
        ELSE LET e == Parse("expr", s, i0, nl, "", <<>>)
             IN  IF e.ok THEN Parse("itemsAfter", s, e.pos, nl, close, Append(acc, e.node))
                 ELSE Fail
      [] rule = "itemsAfter" ->
        IF Peek(s, i0, nl) = close THEN Ok(After(s, i0, nl), Node("Items", acc, <<>>))
        ELSE IF Peek(s, i0, nl) = "," THEN Parse("items", s, After(s, i0, nl), nl, close, acc)
        ELSE Fail
      [] rule = "dictAfter" ->
        \* ("," key ":" value)* [","] "}", acc holding key, value, key, value, ...
        IF Peek(s, i0, TRUE) = "}" THEN Ok(After(s, i0, TRUE), Node("Dict", acc, <<>>))
        ELSE IF Peek(s, i0, TRUE) # "," THEN Fail
        ELSE IF Peek(s, After(s, i0, TRUE), TRUE) = "}"
        THEN Ok(After(s, After(s, i0, TRUE), TRUE), Node("Dict", acc, <<>>))
        ELSE LET key == Parse("expr", s, After(s, i0, TRUE), TRUE, "", <<>>)
             IN  IF ~key.ok \/ Peek(s, key.pos, TRUE) # ":" THEN Fail
                 ELSE LET value == Parse("expr", s, After(s, key.pos, TRUE), TRUE, "", <<>>)
                      IN  IF ~value.ok THEN Fail
                          ELSE Parse("dictAfter", s, value.pos, TRUE, "}",
                                     acc \o <<key.node, value.node>>)

\* the whole text: expression ("," expression)* [","], a tuple when a comma is there
TupleOf(items) ==
    IF items.ok THEN Ok(items.pos, Node("Tuple", items.node.c, <<>>)) ELSE Fail

ParseRest(s, first) ==
    IF ~first.ok THEN Fail
    ELSE IF Peek(s, first.pos, FALSE) = "$" THEN first
    ELSE IF Peek(s, first.pos, FALSE) = ","
    THEN TupleOf(Parse("itemsAfter", s, first.pos, FALSE, "$", <<first.node>>))
    ELSE Fail

ParseEval(s) == ParseRest(s, Parse("expr", s, 1, FALSE, "", <<>>))

VInt(digits) == [t |-> "int", v |-> digits]
VList(items) == [t |-> "list", v |-> items]
VTuple(items) == [t |-> "tuple", v |-> items]
VSet(items) == [t |-> "set", v |-> items]

Hashable(value) == value.t \in {"int", "str"}

Converted(value) == [err |-> "none", val |-> value]
Malformed(exc) == [err |-> exc, val |-> None]

SeqAdd(items, value) ==
    IF \E i \in 1..Len(items) : items[i] = value THEN items ELSE Append(items, value)

RECURSIVE Convert(_)
RECURSIVE ConvertSeq(_, _, _)
RECURSIVE ConvertSet(_, _, _)
RECURSIVE ConvertDict(_, _, _)

\* literal_eval._convert
Convert(node) ==
    IF node.k = "Num" THEN Converted(VInt(node.s))
    ELSE IF node.k = "List" THEN
        LET r == ConvertSeq(node.c, 1, <<>>)
        IN  IF r.err = "none" THEN Converted(VList(r.val)) ELSE r
    ELSE IF node.k = "Tuple" THEN
        LET r == ConvertSeq(node.c, 1, <<>>)
        IN  IF r.err = "none" THEN Converted(VTuple(r.val)) ELSE r
    ELSE IF node.k = "Set" THEN
        LET r == ConvertSet(node.c, 1, <<>>)
        IN  IF r.err = "none" THEN Converted(VSet(r.val)) ELSE r
    ELSE IF node.k = "Dict" THEN
        LET r == ConvertDict(node.c, 1, <<>>)
        IN  IF r.err = "none" THEN Converted(Dict(r.val)) ELSE r
    ELSE Malformed("ValueError")

ConvertSeq(nodes, i, acc) ==
    IF i > Len(nodes) THEN Converted(acc)
    ELSE LET r == Convert(nodes[i])
         IN  IF r.err # "none" THEN r ELSE ConvertSeq(nodes, i + 1, Append(acc, r.val))

ConvertSet(nodes, i, acc) ==
    IF i > Len(nodes) THEN Converted(acc)
    ELSE LET r == Convert(nodes[i])
         IN  IF r.err # "none" THEN r
             ELSE IF ~Hashable(r.val) THEN Malformed("TypeError")
             ELSE ConvertSet(nodes, i + 1, SeqAdd(acc, r.val))

ConvertDict(nodes, i, acc) ==
    IF i > Len(nodes) THEN Converted(acc)
    ELSE LET key == Convert(nodes[i])
         IN  IF key.err # "none" THEN key
             ELSE LET value == Convert(nodes[i + 1])
                  IN  IF value.err # "none" THEN value
                      ELSE IF ~Hashable(key.val) THEN Malformed("TypeError")
                      ELSE ConvertDict(nodes, i + 2, DictSet(acc, key.val, value.val))

ConvertTree(tree) ==
    IF tree.ok THEN Convert(tree.node) ELSE Malformed("SyntaxError")

LiteralEval(text) == ConvertTree(ParseEval(text))

(***************************************************************************)
(* OutputParser.extract_struct                                             *)
(***************************************************************************)
OpenBracket(kind) == IF kind = "list" THEN <<"[">> ELSE <<"{">>
CloseBracket(kind) == IF kind = "list" THEN <<"]">> ELSE <<"}">>
EmptyOf(kind) == IF kind = "list" THEN VList(<<>>) ELSE Dict(<<>>)

\* the slice cut at the first closing bracket instead of the last
StructureText_FirstClose(text, kind) ==
    SubSeq(text, Find(text, OpenBracket(kind), 1), Find(text, CloseBracket(kind), 1))

\* text[start_index : end_index + 1], 1-based
StructureText(text, kind) ==
    SubSeq(text, Find(text, OpenBracket(kind), 1), RFind(text, CloseBracket(kind)))

\* the try block of lines 220-228, given what ast.literal_eval did
StructOutcome(result, kind) ==
    IF result.err = "none"
    THEN (IF result.val.t = kind THEN Returned(result.val, <<>>)
          ELSE Returned(None, <<"Extracted structure is not a">>))
    ELSE IF result.err \in {"ValueError", "SyntaxError"}
    THEN Returned(None, <<"Error parsing text as">>)
    ELSE Raised(result.err, <<>>)

\* extract_struct testing "start found or end found"
OutputParser_extract_struct_Or(text, kind) ==
    LET start_index == Find(text, OpenBracket(kind), 1)
        end_index == RFind(text, CloseBracket(kind))
    IN  IF start_index # 0 \/ end_index # 0
        THEN StructOutcome(LiteralEval(IF start_index # 0 /\ end_index # 0
                                       THEN StructureText(text, kind)
                                       ELSE <<>>), kind)
        ELSE Returned(EmptyOf(kind), <<"No found in the text">>)

OutputParser_extract_struct(text, kind) ==
    LET start_index == Find(text, OpenBracket(kind), 1)
        end_index == RFind(text, CloseBracket(kind))
    IN  IF start_index # 0 /\ end_index # 0
        THEN StructOutcome(LiteralEval(StructureText(text, kind)), kind)
        ELSE Returned(EmptyOf(kind), <<"No found in the text">>)

(***************************************************************************)
(* parse_file_list: the pattern of an optional assignment prefix followed  *)
(* by a bracketed span (both greedy, dot matching line breaks), searched   *)
(* in the text; then ast.literal_eval of the bracketed span, group(2).     *)
(***************************************************************************)
\* match.group(2), <<>> when the pattern does not match.  The span ends at
\* the last "]".  When an "=" comes before the last "[" that the "]"
\* follows, the greedy (.*=.*) runs up to that "[" and the span opens
\* there; otherwise the group is skipped and the span opens at the first "[".
FileListGroup(text) ==
    LET lastClose == RFind(text, <<"]">>)
        opens == {i \in 1..Len(text) : text[i] = "[" /\ i < lastClose}
    IN  IF opens = {} THEN <<>>
        ELSE LET first == CHOOSE i \in opens : \A j \in opens : i <= j
                 last == CHOOSE i \in opens : \A j \in opens : i >= j
             IN  IF \E e \in 1..last - 1 : text[e] = "="
                 THEN SubSeq(text, last, lastClose)
                 ELSE SubSeq(text, first, lastClose)

\* text.split("\n") as a list of str
Lines(text) ==
    LET parts == Split(text, <<"\n">>)
    IN  VList([i \in 1..Len(parts) |-> Str(parts[i])])

\* tasks = ast.literal_eval(tasks_list_str): the value, or its exception
\* leaving the call
Tasks(tasks, logs) ==
    IF tasks.err = "none" THEN Returned(tasks.val, logs) ELSE Raised(tasks.err, logs)

OutputParser_parse_file_list(text) ==
    LET tasks_list_str == FileListGroup(text)
    IN  IF tasks_list_str # <<>>
        THEN Tasks(LiteralEval(tasks_list_str), <<>>)
        ELSE Returned(Lines(text), <<>>)

\* lines 283-291, code being what parse_code returned and logged
CodeFileList(code) ==
    LET tasks_list_str == FileListGroup(code.ret.v)
    IN  IF tasks_list_str # <<>>
        THEN Tasks(LiteralEval(tasks_list_str), code.log)
        ELSE Returned(VList(<<>>),
                      Append(code.log, "Unable to parse file list from the code block"))

CodeParser_parse_file_list(block, text, lang) ==
    CodeFileList(CodeParser_parse_code(block, text, lang))

(***************************************************************************)
(* OutputParser.extract_content.  The tag is interpolated into the pattern *)
(* as it is, so a "+" in it is the one-or-more quantifier of the item in   *)
(* front of it (tags with two "+" in a row, or with any other special      *)
(* character, are not modelled).                                           *)
(***************************************************************************)
CONTENT == <<"C", "O", "N", "T", "E", "N", "T">>

\* the positions after a match of pat[k..] that starts at i
RECURSIVE MatchEnds(_, _, _, _)
MatchEnds(s, i, pat, k) ==
    IF k > Len(pat) THEN {i}
    ELSE IF k < Len(pat) /\ pat[k + 1] = "+"
    THEN UNION {MatchEnds(s, j, pat, k + 2) :
                   j \in {e \in i + 1..Len(s) + 1 : \A m \in i..e - 1 : s[m] = pat[k]}}
    ELSE IF i <= Len(s) /\ s[i] = pat[k] THEN MatchEnds(s, i + 1, pat, k + 1)
    ELSE {}

OpenPattern(tag) == <<"[">> \o tag \o <<"]">>
ClosePattern(tag) == <<"[", "/">> \o tag \o <<"]">>

\* re.search of the opening pattern, a lazy group and the closing pattern
\* (dot matching line breaks): the leftmost start, the longest opening match
\* a closing match follows, the nearest closing match
SearchContent(text, tag) ==
    LET closes == {j \in 1..Len(text) : MatchEnds(text, j, ClosePattern(tag), 1) # {}}
        ends(i) == {e \in MatchEnds(text, i, OpenPattern(tag), 1) : \E j \in closes : j >= e}
        starts == {i \in 1..Len(text) : ends(i) # {}}
    IN  IF starts = {} THEN NoMatch
        ELSE LET i == CHOOSE x \in starts : \A y \in starts : x <= y
                 e == CHOOSE x \in ends(i) : \A y \in ends(i) : x >= y
                 j == CHOOSE x \in closes : x >= e /\ \A y \in closes : y >= e => x <= y
             IN  [found |-> TRUE, at |-> i, group |-> SubSeq(text, e, j - 1)]

OutputParser_extract_content(text, tag) ==
    LET extracted_content == SearchContent(text, tag)
    IN  IF extracted_content.found THEN Returned(Str(Strip(extracted_content.group)), <<>>)
        ELSE Raised("ValueError", <<>>)

(***************************************************************************)
(* OutputParser.parse_data and parse_data_with_mapping.  A mapping is a    *)
(* dict from a title to the typing declared for it (typing_define[0] when  *)
(* it is a tuple).                                                         *)
(***************************************************************************)
\* mapping.get(block, None)
MappingGet(mapping, block) ==
    IF block \in DictKeys(mapping) THEN DictGet(mapping, block) ELSE "None"

\* the test of line 171
IsListTyping(typing) == typing \in {"List[str]", "List[Tuple[str, str]]", "List[List[str]]"}

\* lines 173-176: the tasks parse_file_list returned, content kept when it raised
ListOrContent(content, tasks) ==
    IF tasks.raised = "none" THEN tasks.ret ELSE content

\* lines 162-176 for one field, stripped being what parse_code returned
FieldValue(stripped, typing) ==
    IF IsListTyping(typing)
    THEN ListOrContent(stripped.ret, OutputParser_parse_file_list(stripped.ret.v))
    ELSE stripped.ret

\* the loop of lines 160-184; parse_code raises nothing, so the handler of
\* line 164 is never entered
RECURSIVE MappingLoop(_, _, _, _, _)
MappingLoop(block_dict, mapping, i, parsed_data, logs) ==
    IF i > Len(block_dict) THEN Returned(Dict(parsed_data), logs)
    ELSE MappingLoop(block_dict, mapping, i + 1,
             DictSet(parsed_data, block_dict[i][1],
                     FieldValue(OutputParser_parse_code(block_dict[i][2], <<>>),
                                MappingGet(mapping, block_dict[i][1]))),
             logs \o OutputParser_parse_code(block_dict[i][2], <<>>).log)

\* lines 156-157: data after the wrapper is removed, or the exception of
\* extract_content
Unwrapped(data) ==
    IF Contains(data, OpenPattern(CONTENT))
    THEN OutputParser_extract_content(data, CONTENT)
    ELSE Returned(Str(data), <<>>)

\* lines 159-185, blocks being what parse_blocks did
MappedBlocks(blocks, mapping) ==
    IF blocks.raised # "none" THEN blocks
    ELSE MappingLoop(blocks.ret.v, mapping, 1, <<>>, <<>>)

\* lines 158-185, unwrapped being what lines 156-157 did
MappedData(unwrapped, mapping) ==
    IF unwrapped.raised # "none" THEN unwrapped
    ELSE MappedBlocks(OutputParser_parse_blocks(unwrapped.ret.v), mapping)

OutputParser_parse_data_with_mapping(data, mapping) ==
    MappedData(Unwrapped(data), mapping)

\* the loop of lines 131-141; parse_code raises nothing, so the handler of
\* line 135 (parse_file_list) is never entered
RECURSIVE DataLoop(_, _, _, _)
DataLoop(block_dict, i, parsed_data, logs) ==
    IF i > Len(block_dict) THEN Returned(Dict(parsed_data), logs)
    ELSE DataLoop(block_dict, i + 1,
             DictSet(parsed_data, block_dict[i][1],
                     OutputParser_parse_code(block_dict[i][2], <<>>).ret),
             logs \o OutputParser_parse_code(block_dict[i][2], <<>>).log)

\* lines 130-142, blocks being what parse_blocks did
DataBlocks(blocks) ==
    IF blocks.raised # "none" THEN blocks
    ELSE DataLoop(blocks.ret.v, 1, <<>>, <<>>)

OutputParser_parse_data(data) == DataBlocks(OutputParser_parse_blocks(data))

(***************************************************************************)
(* OutputParser.parse_str                                                  *)
(***************************************************************************)
\* str.strip(chars)
StripChars(s, chars) ==
    LET keep == {i \in 1..Len(s) : s[i] \notin chars}
    IN  IF keep = {} THEN <<>>
        ELSE SubSeq(s, CHOOSE i \in keep : \A j \in keep : i <= j,
                       CHOOSE i \in keep : \A j \in keep : i >= j)

\* text.split("=")[-1]
LastPart(parts) == parts[Len(parts)]

OutputParser_parse_str(text) ==
    Returned(Str(StripChars(StripChars(Strip(LastPart(Split(text, <<"=">>))), {"'"}), {"\""})),
             <<>>)

(***************************************************************************)
(* The extractors called with any Python value x as the text: a str, None, *)
(* an int, a list or bytes.  Nothing in the code tests the type: the first *)
(* operation on the value decides.  A str method (split, find) is missing  *)
(* on None, int and list (AttributeError) and rejects a str argument on    *)
(* bytes (TypeError); re.search with a str pattern rejects every non-str   *)
(* (TypeError); the test "[CONTENT]" in x rejects None, int and bytes      *)
(* (TypeError) and is a membership test on a list.                         *)
(***************************************************************************)
Bytes(s) == [t |-> "bytes", v |-> s]

\* x.split(...) or x.find(...) with a str argument, x not a str
MethodError(x) == IF x.t = "bytes" THEN "TypeError" ELSE "AttributeError"

\* "[CONTENT]" in x (line 156)
HasContentTag(x) ==
    IF x.t = "str" THEN Returned(Contains(x.v, OpenPattern(CONTENT)), <<>>)
    ELSE IF x.t = "list"
    THEN Returned(\E i \in 1..Len(x.v) : x.v[i] = Str(OpenPattern(CONTENT)), <<>>)
    ELSE Raised("TypeError", <<>>)

\* parse_blocks taking bytes for text
OutputParser_parse_blocks_Decode(x) ==
    IF x.t \in {"str", "bytes"} THEN OutputParser_parse_blocks(x.v)
    ELSE Raised(MethodError(x), <<>>)

\* line 61: text.split("##")
OutputParser_parse_blocks_Value(x) ==
    IF x.t = "str" THEN OutputParser_parse_blocks(x.v) ELSE Raised(MethodError(x), <<>>)

\* line 83: re.search(pattern, text, re.DOTALL)
OutputParser_parse_code_Value(x, lang) ==
    IF x.t = "str" THEN OutputParser_parse_code(x.v, lang) ELSE Raised("TypeError", <<>>)

\* lines 212-213: text.find, text.rfind
OutputParser_extract_struct_Value(x, kind) ==
    IF x.t = "str" THEN OutputParser_extract_struct(x.v, kind)
    ELSE Raised(MethodError(x), <<>>)

\* line 147: re.search
OutputParser_extract_content_Value(x, tag) ==
    IF x.t = "str" THEN OutputParser_extract_content(x.v, tag) ELSE Raised("TypeError", <<>>)

\* lines 156-158, tagged being what the test of line 156 did
MappedValue(x, tagged, mapping) ==
    IF tagged.raised # "none" THEN tagged
    ELSE IF tagged.ret THEN OutputParser_extract_content_Value(x, CONTENT)
    ELSE OutputParser_parse_blocks_Value(x)

OutputParser_parse_data_with_mapping_Value(x, mapping) ==
    IF x.t = "str" THEN OutputParser_parse_data_with_mapping(x.v, mapping)
    ELSE MappedValue(x, HasContentTag(x), mapping)

\* line 245: text.split("##")
CodeParser_parse_blocks_Value(x) ==
    IF x.t = "str" THEN CodeParser_parse_blocks(x.v) ELSE Raised(MethodError(x), <<>>)

\* line 237: parse_blocks(text) comes first
CodeParser_parse_block_Value(block, x) ==
    IF x.t = "str" THEN Returned(Str(CodeParser_parse_block(block, x.v)), <<>>)
    ELSE Raised(MethodError(x), <<>>)

\* lines 261-264: parse_block when a block is named, else re.search on the value
CodeParser_parse_code_Value(block, x, lang) ==
    IF x.t = "str" THEN CodeParser_parse_code(block, x.v, lang)
    ELSE IF block # <<>> THEN Raised(MethodError(x), <<>>)
    ELSE Raised("TypeError", <<>>)

(***************************************************************************)
(* Calls.                                                                  *)
(***************************************************************************)
Call(name, a, out) ==
    /\ pc = "idle"
    /\ pc' = "done"
    /\ op' = name
    /\ args' = a
    /\ ret' = out.ret
    /\ raised' = out.raised
    /\ log' = out.log
    /\ UNCHANGED <<doc, prev, again, calls, review>>

InitWith(toks, n) ==
    /\ IsTokenText(doc, toks, n)
    /\ pc = "idle"
    /\ op = "none"
    /\ args = NoArgs
    /\ ret = None
    /\ raised = "none"
    /\ log = <<>>
    /\ prev = NoCall
    /\ again = FALSE
    /\ calls = <<>>
    /\ review = <<>>

(***************************************************************************)
(* Block splitting: documents over heading, line-break, colon, blank and   *)
(* two letters.                                                            *)
(***************************************************************************)
BlockTokens == {<<"#", "#">>, <<"\n">>, <<":">>, <<" ">>, <<"a">>, <<"b">>}

CallOutputParseBlocks ==
    Call("OutputParser.parse_blocks", NoArgs, OutputParser_parse_blocks(doc))

CallCodeParseBlocks ==
    Call("CodeParser.parse_blocks", NoArgs, CodeParser_parse_blocks(doc))

InitBlocks == InitWith(BlockTokens, MaxBlockTok)

NextBlocks ==
    \/ CallOutputParseBlocks
    \/ CallCodeParseBlocks

SpecBlocks == InitBlocks /\ [][NextBlocks]_vars

(***************************************************************************)
(* Fence extraction: texts over the fence marker, a fence marker tagged py *)
(* and ending its line, a line break, a letter and a heading.              *)
(***************************************************************************)
Py == <<"p", "y">>

CodeTokens == {Fence, Fence \o Py \o <<"\n">>, <<"\n">>, <<"x">>, <<"#", "#">>}

CodeArgs(lang, block) == [lang |-> lang, block |-> block, kind |-> "none"]

CallOutputParseCode ==
    \E lang \in {<<>>, Py} :
        Call("OutputParser.parse_code", CodeArgs(lang, <<>>),
             OutputParser_parse_code(doc, lang))

CallCodeParseCode ==
    \E lang \in {<<>>, Py} : \E block \in {<<>>, <<"x">>} :
        Call("CodeParser.parse_code", CodeArgs(lang, block),
             CodeParser_parse_code(block, doc, lang))

\* the caller hands the returned code to the same extractor again
Reapply ==
    /\ pc = "done"
    /\ op \in {"OutputParser.parse_code", "CodeParser.parse_code"}
    /\ raised = "none"
    /\ LET out == ApplyCode(op, args, ret.v)
       IN  /\ doc' = ret.v
           /\ prev' = [doc |-> doc, ret |-> ret]
           /\ again' = TRUE
           /\ ret' = out.ret
           /\ raised' = out.raised
           /\ log' = out.log
    /\ UNCHANGED <<pc, op, args, calls, review>>

InitCode == InitWith(CodeTokens, MaxCodeTok)

NextCode ==
    \/ CallOutputParseCode
    \/ CallCodeParseCode
    \/ Reapply

SpecCode == InitCode /\ [][NextCode]_vars

(***************************************************************************)
(* Structure extraction: texts over brackets, braces, comma, colon, the    *)
(* digit 1 and the letter x (prose, or a bare name inside a literal).      *)
(***************************************************************************)
StructTokens == {<<"[">>, <<"]">>, <<"{">>, <<"}">>, <<",">>, <<":">>, <<"1">>, <<"x">>}

CallExtractStruct ==
    \E kind \in {"list", "dict"} :
        Call("OutputParser.extract_struct", [lang |-> <<>>, block |-> <<>>, kind |-> kind],
             OutputParser_extract_struct(doc, kind))

InitStruct == InitWith(StructTokens, MaxStructLen)

NextStruct == CallExtractStruct

SpecStruct == InitStruct /\ [][NextStruct]_vars

(***************************************************************************)
(* File lists: texts over brackets, "=", the digit 1, comma, line break,   *)
(* blank and the fence marker.                                             *)
(***************************************************************************)
ListTokens == {<<"[">>, <<"]">>, <<"=">>, <<"1">>, <<",">>, <<"\n">>, <<" ">>, Fence}

CallParseFileList ==
    Call("OutputParser.parse_file_list", NoArgs, OutputParser_parse_file_list(doc))

CallCodeParseFileList ==
    Call("CodeParser.parse_file_list", CodeArgs(<<>>, <<>>),
         CodeParser_parse_file_list(<<>>, doc, <<>>))

InitList == InitWith(ListTokens, MaxListTok)

NextList ==
    \/ CallParseFileList
    \/ CallCodeParseFileList

SpecList == InitList /\ [][NextList]_vars

(***************************************************************************)
(* One field: a document of one section titled "a", its body fenced or     *)
(* not, over "=", brackets, a one-element list, comma, line break, blank   *)
(* and a letter; the field declared as str or as List[str].                *)
(***************************************************************************)
FieldTokens == {<<"=">>, <<"[">>, <<"]">>, <<"[", "1", "]">>, <<",">>, <<"\n">>, <<" ">>, <<"x">>}

Title == <<"a">>

\* the body of the section, the inner text inside a fence or bare
Body(fenced, inner) == IF fenced THEN Fence \o <<"\n">> \o inner \o Fence ELSE inner

MappingArgs(mapping) == [lang |-> <<>>, block |-> <<>>, kind |-> "none", mapping |-> mapping]

CallParseDataWithMapping ==
    \E typing \in {"str", "List[str]"} :
        Call("OutputParser.parse_data_with_mapping", MappingArgs(<<<<Title, typing>>>>),
             OutputParser_parse_data_with_mapping(doc, <<<<Title, typing>>>>))

InitField ==
    /\ \E k \in 0..MaxFieldTok : \E f \in [1..k -> FieldTokens] : \E fenced \in BOOLEAN :
          doc = <<"#", "#">> \o Title \o <<"\n">> \o Body(fenced, Flatten(f))
    /\ pc = "idle"
    /\ op = "none"
    /\ args = NoArgs
    /\ ret = None
    /\ raised = "none"
    /\ log = <<>>
    /\ prev = NoCall
    /\ again = FALSE
    /\ calls = <<>>
    /\ review = <<>>

NextField == CallParseDataWithMapping

SpecField == InitField /\ [][NextField]_vars

(***************************************************************************)
(* Structured documents: texts over a heading titled "a" with its line     *)
(* break, a heading titled "b", a line break, the CONTENT wrapper markers, *)
(* markers of the tag A+ and of the tag A, and a letter.  Field a is       *)
(* declared as str or as List[str], field b as str.                        *)
(***************************************************************************)
Grade == <<"A", "+">>

DataTokens ==
    {<<"#", "#", "a", "\n">>, <<"#", "#", "b">>, <<"\n">>, <<"x">>,
     OpenPattern(CONTENT), ClosePattern(CONTENT),
     OpenPattern(Grade), ClosePattern(Grade),
     OpenPattern(<<"A">>), ClosePattern(<<"A">>)}

DataMapping(typing) == <<<<(<<"a">>), typing>>, <<(<<"b">>), "str">>>>

CallMapData ==
    \E typing \in {"str", "List[str]"} :
        Call("OutputParser.parse_data_with_mapping", MappingArgs(DataMapping(typing)),
             OutputParser_parse_data_with_mapping(doc, DataMapping(typing)))

CallParseData ==
    Call("OutputParser.parse_data", NoArgs, OutputParser_parse_data(doc))

CallExtractContent ==
    \E tag \in {CONTENT, Grade} :
        Call("OutputParser.extract_content",
             [lang |-> <<>>, block |-> <<>>, kind |-> "none", tag |-> tag],
             OutputParser_extract_content(doc, tag))

InitData == InitWith(DataTokens, MaxDataTok)

NextData ==
    \/ CallMapData
    \/ CallParseData
    \/ CallExtractContent

SpecData == InitData /\ [][NextData]_vars

(***************************************************************************)
(* One scalar field: a document of one section titled "a", its body fenced *)
(* or not, over "=", the two quote characters, line break, blank and a     *)
(* letter; the field declared as str, as int, or left out of the mapping.  *)
(***************************************************************************)
ScalarTokens == {<<"=">>, <<"'">>, <<"\"">>, <<"\n">>, <<" ">>, <<"x">>}

ScalarMappings == {<<>>, <<<<Title, "str">>>>, <<<<Title, "int">>>>}

CallMapScalar ==
    \E mapping \in ScalarMappings :
        Call("OutputParser.parse_data_with_mapping", MappingArgs(mapping),
             OutputParser_parse_data_with_mapping(doc, mapping))

CallParseStr ==
    Call("OutputParser.parse_str", NoArgs, OutputParser_parse_str(doc))

InitScalar ==
    /\ \E k \in 0..MaxScalarTok : \E f \in [1..k -> ScalarTokens] : \E fenced \in BOOLEAN :
          doc = <<"#", "#">> \o Title \o <<"\n">> \o Body(fenced, Flatten(f))
    /\ pc = "idle"
    /\ op = "none"
    /\ args = NoArgs
    /\ ret = None
    /\ raised = "none"
    /\ log = <<>>
    /\ prev = NoCall
    /\ again = FALSE
    /\ calls = <<>>
    /\ review = <<>>

NextScalar ==
    \/ CallMapScalar
    \/ CallParseStr

SpecScalar == InitScalar /\ [][NextScalar]_vars

(***************************************************************************)
(* Any value as the text: a str or bytes over a heading with its line      *)
(* break, the opening CONTENT marker, a bracket pair and a letter; None;   *)
(* an int; a list of at most two such one-token strings.                   *)
(***************************************************************************)
ValueTokens == {<<"#", "#", "a", "\n">>, OpenPattern(CONTENT), <<"[", "]">>, <<"x">>}

TokenTexts(toks, n) == {Flatten(f) : f \in UNION {[1..k -> toks] : k \in 0..n}}

Values ==
    {Str(s) : s \in TokenTexts(ValueTokens, MaxValueTok)}
        \cup {Bytes(s) : s \in TokenTexts(ValueTokens, MaxValueTok)}
        \cup {None, VInt(<<"1">>)}
        \cup {VList([i \in 1..Len(f) |-> Str(f[i])]) :
                 f \in UNION {[1..k -> ValueTokens] : k \in 0..2}}

CallValueParseBlocks ==
    Call("OutputParser.parse_blocks", NoArgs, OutputParser_parse_blocks_Value(doc))

CallValueParseCode ==
    \E lang \in {<<>>, Py} :
        Call("OutputParser.parse_code", CodeArgs(lang, <<>>),
             OutputParser_parse_code_Value(doc, lang))

CallValueExtractStruct ==
    \E kind \in {"list", "dict"} :
        Call("OutputParser.extract_struct", [lang |-> <<>>, block |-> <<>>, kind |-> kind],
             OutputParser_extract_struct_Value(doc, kind))

CallValueExtractContent ==
    Call("OutputParser.extract_content",
         [lang |-> <<>>, block |-> <<>>, kind |-> "none", tag |-> CONTENT],
         OutputParser_extract_content_Value(doc, CONTENT))

CallValueMapData ==
    Call("OutputParser.parse_data_with_mapping", MappingArgs(DataMapping("str")),
         OutputParser_parse_data_with_mapping_Value(doc, DataMapping("str")))

CallValueCodeParseBlocks ==
    Call("CodeParser.parse_blocks", NoArgs, CodeParser_parse_blocks_Value(doc))

CallValueCodeParseBlock ==
    Call("CodeParser.parse_block", CodeArgs(<<>>, <<"a">>),
         CodeParser_parse_block_Value(<<"a">>, doc))

CallValueCodeParseCode ==
    \E block \in {<<>>, <<"a">>} :
        Call("CodeParser.parse_code", CodeArgs(Py, block),
             CodeParser_parse_code_Value(block, doc, Py))

InitValue ==
    /\ doc \in Values
    /\ pc = "idle"
    /\ op = "none"
    /\ args = NoArgs
    /\ ret = None
    /\ raised = "none"
    /\ log = <<>>
    /\ prev = NoCall
    /\ again = FALSE
    /\ calls = <<>>
    /\ review = <<>>

NextValue ==
    \/ CallValueParseBlocks
    \/ CallValueParseCode
    \/ CallValueExtractStruct
    \/ CallValueExtractContent
    \/ CallValueMapData
    \/ CallValueCodeParseBlocks
    \/ CallValueCodeParseBlock
    \/ CallValueCodeParseCode

SpecValue == InitValue /\ [][NextValue]_vars

(***************************************************************************)
(* Concurrent calls.  Two tasks each run one call of parse_data or of      *)
(* parse_data_with_mapping on a document and mapping of their own, and     *)
(* their statements interleave.  A frame holds the arguments of the call   *)
(* (data, mapping) and its locals: text is the local name data after line  *)
(* 157, block_dict, the position i of the loop in block_dict.items() and   *)
(* parsed_data.  The logger is the one thing the calls have in common:    *)
(* every entry is appended to log with the task that emitted it.           *)
(***************************************************************************)
TaskIds == {1, 2}

TaskTokens ==
    {<<"#", "#", "a", "\n">> \o Fence \o <<"\n", "x">> \o Fence,
     <<"#", "#", "b", "\n", "x">>,
     OpenPattern(CONTENT), ClosePattern(CONTENT)}

\* task 1 declares field a as a list, task 2 as str
TaskMapping(t) == DataMapping(IF t = 1 THEN "List[str]" ELSE "str")

Frame(name, data, mapping) ==
    [op |-> name, data |-> data, mapping |-> mapping,
     pc |-> IF name = "OutputParser.parse_data_with_mapping" THEN "unwrap" ELSE "split",
     text |-> data, block_dict |-> <<>>, i |-> 1, parsed_data |-> <<>>,
     ret |-> None, raised |-> "none"]

\* an exception leaves the call
Abort(frame, exc) == [frame EXCEPT !.pc = "done", !.raised = exc]

\* the log entries of a call, tagged with its task
Tagged(t, logs) == [j \in 1..Len(logs) |-> <<t, logs[j]>>]

\* block_dict kept in one place for all calls (the frame of task 1)
BlocksOf_Shared(t) == calls[1].block_dict

\* the block_dict the loop of task t iterates over: the local of its own frame
BlocksOf(t) == calls[t].block_dict

\* lines 156-157
Unwrap(t) ==
    /\ calls[t].pc = "unwrap"
    /\ calls' = [calls EXCEPT ![t] =
                    IF Unwrapped(calls[t].text).raised # "none"
                    THEN Abort(calls[t], Unwrapped(calls[t].text).raised)
                    ELSE [calls[t] EXCEPT !.pc = "split",
                                          !.text = Unwrapped(calls[t].text).ret.v]]
    /\ UNCHANGED <<doc, pc, op, args, ret, raised, log, prev, again, review>>

\* line 158 (line 129 in parse_data)
SplitBlocks(t) ==
    /\ calls[t].pc = "split"
    /\ calls' = [calls EXCEPT ![t] =
                    IF OutputParser_parse_blocks(calls[t].text).raised # "none"
                    THEN Abort(calls[t], OutputParser_parse_blocks(calls[t].text).raised)
                    ELSE [calls[t] EXCEPT
                             !.pc = "loop",
                             !.block_dict = OutputParser_parse_blocks(calls[t].text).ret.v]]
    /\ UNCHANGED <<doc, pc, op, args, ret, raised, log, prev, again, review>>

\* the value of one field: lines 162-176 with the mapping, lines 133-140 without
IterationValue(frame, block, stripped) ==
    IF frame.op = "OutputParser.parse_data_with_mapping"
    THEN FieldValue(stripped, MappingGet(frame.mapping, block))
    ELSE stripped.ret

\* one iteration of the loop of lines 160-184 (131-141 in parse_data)
Iterate(t, item, stripped) ==
    /\ calls' = [calls EXCEPT ![t] =
                    [calls[t] EXCEPT
                        !.i = calls[t].i + 1,
                        !.parsed_data = DictSet(calls[t].parsed_data, item[1],
                                                IterationValue(calls[t], item[1], stripped))]]
    /\ log' = log \o Tagged(t, stripped.log)

LoopStep(t) ==
    /\ calls[t].pc = "loop"
    /\ calls[t].i <= Len(BlocksOf(t))
    /\ Iterate(t, BlocksOf(t)[calls[t].i],
               OutputParser_parse_code(BlocksOf(t)[calls[t].i][2], <<>>))
    /\ UNCHANGED <<doc, pc, op, args, ret, raised, prev, again, review>>

\* line 185 (142): return parsed_data
ReturnData(t) ==
    /\ calls[t].pc = "loop"
    /\ calls[t].i > Len(BlocksOf(t))
    /\ calls' = [calls EXCEPT ![t] = [calls[t] EXCEPT !.pc = "done",
                                                  !.ret = Dict(calls[t].parsed_data)]]
    /\ UNCHANGED <<doc, pc, op, args, ret, raised, log, prev, again, review>>

InitTasks ==
    /\ \E d \in [TaskIds -> TokenTexts(TaskTokens, MaxTaskTok)] :
       \E name \in [TaskIds -> {"OutputParser.parse_data_with_mapping", "OutputParser.parse_data"}] :
          calls = [t \in TaskIds |-> Frame(name[t], d[t], TaskMapping(t))]
    /\ doc = <<>>
    /\ pc = "idle"
    /\ op = "none"
    /\ args = NoArgs
    /\ ret = None
    /\ raised = "none"
    /\ log = <<>>
    /\ prev = NoCall
    /\ again = FALSE
    /\ review = <<>>

NextTasks ==
    \E t \in TaskIds :
        \/ Unwrap(t)
        \/ SplitBlocks(t)
        \/ LoopStep(t)
        \/ ReturnData(t)

SpecTasks == InitTasks /\ [][NextTasks]_vars

(***************************************************************************)
(* WriteCodeReview.run (metagpt/actions/write_code_review.py).  The state  *)
(* of a run is the record review: code_review_k_times as configured (0     *)
(* when unset), k, the loop index i, code_doc.content, the locals          *)
(* iterative_code, result and rewrited_code, and pc.  The answers of the   *)
(* LLM (_aask) are chosen freely from a few texts.  Kept beside the        *)
(* program's own state: original (the content at the start), results (the  *)
(* review result of every round), reviewed (the code under review in every *)
(* round), asks (the requests issued, <<kind, round>>) and rewritten (the  *)
(* code every rewrite step returned).                                      *)
(***************************************************************************)
ReviewTitle == <<"C", "o", "d", "e", " ", "R", "e", "v", "i", "e", "w", " ", "R", "e", "s", "u", "l", "t">>
LGTM == <<"L", "G", "T", "M">>
LBTM == <<"L", "B", "T", "M">>
Cpp == <<"c", "p", "p">>

\* answers to the review request: the result section says LGTM, LBTM, both,
\* or neither; or there is no result section
ReviewAnswers ==
    {<<"#", "#", " ">> \o ReviewTitle \o <<"\n">> \o body :
        body \in {LGTM, LBTM, LBTM \o <<" ">> \o LGTM, <<"x">>}}
        \cup {<<"x">>}

\* answers to the rewrite request: the code in a cpp fence, or bare
RewriteAnswers == {Fence \o Cpp \o <<"\n", "y">> \o Fence, <<"z">>}

Original == Str(<<"x">>)

\* len(iterative_code) in the f-string of lines 141-144
LenError(code) == IF code.t = "str" THEN "none" ELSE "TypeError"

InitReview ==
    /\ \E k_times \in 0..MaxReviewRounds :
          review = [pc |-> "loop", code_review_k_times |-> k_times,
                    k |-> IF k_times = 0 THEN 1 ELSE k_times, i |-> 0,
                    content |-> Original, iterative_code |-> Original,
                    result |-> <<>>, rewrited_code |-> None, raised |-> "none",
                    original |-> Original, results |-> <<>>, reviewed |-> <<>>,
                    asks |-> <<>>, rewritten |-> {}]
    /\ doc = <<>>
    /\ pc = "idle"
    /\ op = "none"
    /\ args = NoArgs
    /\ ret = None
    /\ raised = "none"
    /\ log = <<>>
    /\ prev = NoCall
    /\ again = FALSE
    /\ calls = <<>>

\* lines 141-144: building the logger.info message fails on a code that has no len()
LogRaises ==
    /\ review.pc = "loop"
    /\ review.i < review.k
    /\ LenError(review.iterative_code) # "none"
    /\ review' = [review EXCEPT !.pc = "raised", !.raised = LenError(review.iterative_code)]
    /\ UNCHANGED <<doc, pc, op, args, ret, raised, log, prev, again, calls>>

\* lines 106-109, result being the review result of the answer: with LGTM
\* the step returns (result, None), else the rewrite request follows
Reviewed(result) ==
    review' = [review EXCEPT
                  !.pc = IF Contains(result, LGTM) THEN "decide" ELSE "rewrite",
                  !.result = result,
                  !.rewrited_code = None,
                  !.results = Append(review.results, result),
                  !.reviewed = Append(review.reviewed, review.iterative_code),
                  !.asks = Append(review.asks, <<"review", review.i + 1>>)]

\* one round up to the review result: lines 123-147 and 106-109
AskReview ==
    /\ review.pc = "loop"
    /\ review.i < review.k
    /\ LenError(review.iterative_code) = "none"
    /\ \E cr_rsp \in ReviewAnswers : Reviewed(CodeParser_parse_block(ReviewTitle, cr_rsp))
    /\ UNCHANGED <<doc, pc, op, args, ret, raised, log, prev, again, calls>>

\* lines 112-115, code being what CodeParser.parse_code made of the answer
Rewritten(code) ==
    review' = [review EXCEPT
                  !.pc = "decide",
                  !.rewrited_code = code,
                  !.asks = Append(review.asks, <<"rewrite", review.i + 1>>),
                  !.rewritten = review.rewritten \cup {code}]

AskRewrite ==
    /\ review.pc = "rewrite"
    /\ \E code_rsp \in RewriteAnswers :
          Rewritten(CodeParser_parse_code(<<>>, code_rsp, Cpp).ret)
    /\ UNCHANGED <<doc, pc, op, args, ret, raised, log, prev, again, calls>>

\* lines 148-152
Decide ==
    /\ review.pc = "decide"
    /\ review' =
          IF Contains(review.result, LBTM)
          THEN [review EXCEPT !.pc = "loop", !.i = review.i + 1,
                              !.iterative_code = review.rewrited_code]
          ELSE IF Contains(review.result, LGTM)
          THEN [review EXCEPT !.pc = "returned", !.content = review.iterative_code]
          ELSE [review EXCEPT !.pc = "loop", !.i = review.i + 1]
    /\ UNCHANGED <<doc, pc, op, args, ret, raised, log, prev, again, calls>>

\* lines 156-157: the loop is over
Finish ==
    /\ review.pc = "loop"
    /\ review.i >= review.k
    /\ review' = [review EXCEPT !.pc = "returned", !.content = review.iterative_code]
    /\ UNCHANGED <<doc, pc, op, args, ret, raised, log, prev, again, calls>>

NextReview ==
    \/ LogRaises
    \/ AskReview
    \/ AskRewrite
    \/ Decide
    \/ Finish

SpecReview == InitReview /\ [][NextReview]_vars

(***************************************************************************)
(* Named sections: documents over headings titled "a", "ab" and "b" with   *)
(* their line break, two letters and a fenced py block; parse_block and    *)
(* parse_code are called with a block name.                                *)
(***************************************************************************)
SectionTokens ==
    {<<"#", "#", "a", "\n">>, <<"#", "#", "a", "b", "\n">>, <<"#", "#", "b", "\n">>,
     <<"x">>, <<"y">>, Fence \o Py \o <<"\n", "z">> \o Fence}

CallCodeParseBlock ==
    \E block \in {<<>>, <<"a">>, <<"b">>, <<"c">>} :
        Call("CodeParser.parse_block", CodeArgs(<<>>, block),
             Returned(Str(CodeParser_parse_block(block, doc)), <<>>))

CallCodeParseCodeIn ==
    \E block \in {<<"a">>, <<"b">>, <<"c">>} :
        Call("CodeParser.parse_code", CodeArgs(Py, block),
             CodeParser_parse_code(block, doc, Py))

InitSection == InitWith(SectionTokens, MaxSectionTok)

NextSection ==
    \/ CallCodeParseBlock
    \/ CallCodeParseCodeIn

SpecSection == InitSection /\ [][NextSection]_vars

(***************************************************************************)
(* The sections a document is written with: every "##" opens a section,    *)
(* whose title line runs to the first line break and whose body is the     *)
(* rest, up to the next "##".                                              *)
(***************************************************************************)
HeadingAt(text, i) ==
    /\ StartsWithAt(text, <<"#", "#">>, i)
    /\ (i = 1 \/ text[i - 1] # "#")

Headings(text) == {i \in 1..Len(text) : HeadingAt(text, i)}

SectionEnd(text, h) ==
    LET later == {j \in Headings(text) : j > h}
    IN  IF later = {} THEN Len(text)
        ELSE (CHOOSE j \in later : \A k \in later : j <= k) - 1

SectionText(text, h) == SubSeq(text, h + 2, SectionEnd(text, h))

RawTitle(sec) == SubSeq(sec, 1, Find(sec, <<"\n">>, 1) - 1)
RawBody(sec) == SubSeq(sec, Find(sec, <<"\n">>, 1) + 1, Len(sec))

\* the title as the reader means it: trimmed, one trailing colon removed
NormalTitle(title) ==
    LET t == Strip(title)
    IN  IF t # <<>> /\ t[Len(t)] = ":" THEN Strip(SubSeq(t, 1, Len(t) - 1)) ELSE t

\* text is N >= 1 sections "##" title-line body, titles non-empty and distinct
IsSectioned(text) ==
    /\ 1 \in Headings(text)
    /\ \A h \in Headings(text) :
          LET sec == SectionText(text, h)
          IN  /\ \A i \in 1..Len(sec) : sec[i] # "#"
              /\ Contains(sec, <<"\n">>)
              /\ NormalTitle(RawTitle(sec)) # <<>>
    /\ \A h1, h2 \in Headings(text) :
          h1 # h2 => NormalTitle(RawTitle(SectionText(text, h1)))
                       # NormalTitle(RawTitle(SectionText(text, h2)))

RECURSIVE SectionMapping(_, _)
SectionMapping(text, hs) ==
    IF hs = {} THEN <<>>
    ELSE LET h == CHOOSE i \in hs : \A j \in hs : i <= j
             sec == SectionText(text, h)
         IN  <<<<NormalTitle(RawTitle(sec)), Strip(RawBody(sec))>>>>
               \o SectionMapping(text, hs \ {h})

Done(name) == pc = "done" /\ op = name

\* C1: a document of N sections with distinct non-empty titles parses to
\* exactly the N entries (title trimmed, trailing colon removed) -> trimmed body.
C1_SectionsRecovered ==
    (Done("OutputParser.parse_blocks") /\ IsSectioned(doc))
        => /\ raised = "none"
           /\ ret = Dict(SectionMapping(doc, Headings(doc)))

\* C2: a non-blank fragment without a line break yields an entry with the
\* trimmed fragment as title and an empty body, and the call does not fail.
C2_TitleOnlyFragment ==
    Done("OutputParser.parse_blocks") =>
        \A i \in 1..Len(Split(doc, <<"#", "#">>)) :
            LET frag == Split(doc, <<"#", "#">>)[i]
            IN  (Strip(frag) # <<>> /\ ~Contains(frag, <<"\n">>))
                    => /\ raised = "none"
                       /\ Strip(frag) \in DictKeys(ret.v)

NoSectionDoc(text) ==
    \/ Strip(text) = <<>>
    \/ ~Contains(text, <<"#", "#">>)

\* C3 as stated: an empty, whitespace-only or heading-free document gives
\* the empty mapping and no error.
C3_NoSectionEmptyMapping ==
    (Done("OutputParser.parse_blocks") /\ NoSectionDoc(doc))
        => (raised = "none" /\ ret = Dict(<<>>))

\* only whitespace and "##" delimiters
OnlyDelimitersAndBlanks(text) ==
    /\ \A i \in 1..Len(text) : text[i] \in WS \cup {"#"}
    /\ \A h \in Headings(text) :
          \A i \in 1..Len(SectionText(text, h)) : SectionText(text, h)[i] # "#"
    /\ (text # <<>> /\ text[1] = "#") => 1 \in Headings(text)
    /\ \A i \in 1..Len(text) : text[i] = "#" => \E h \in Headings(text) : i \in {h, h + 1}

\* C3 amended: a document made only of whitespace and "##" delimiters
\* (empty and whitespace-only included) gives the empty mapping and no error.
C3_BlankDocEmptyMapping ==
    (Done("OutputParser.parse_blocks") /\ OnlyDelimitersAndBlanks(doc))
        => (raised = "none" /\ ret = Dict(<<>>))

C3_Witness ==
    /\ Done("OutputParser.parse_blocks")
    /\ doc = <<" ", "#", "#", "\n", "#", "#">>
    /\ raised = "none"
    /\ ret = Dict(<<>>)

(***************************************************************************)
(* The fences a text is written with: fence markers pair up from the left, *)
(* the 1st opens a block, the 2nd closes it, the 3rd opens the next.       *)
(***************************************************************************)
RECURSIVE Marks(_, _)
Marks(text, from) ==
    LET i == Find(text, Fence, from)
    IN  IF i = 0 THEN <<>> ELSE <<i>> \o Marks(text, i + 3)

\* every backtick of the text belongs to a marker of exactly three
PlainMarks(text) ==
    \A i \in 1..Len(text) :
        text[i] = "~" =>
            \E j \in {i - 2, i - 1, i} :
                /\ StartsWithAt(text, Fence, j)
                /\ (j = 1 \/ text[j - 1] # "~")
                /\ (j + 3 > Len(text) \/ text[j + 3] # "~")

\* the fenced blocks, as <<opening marker, closing marker>>
Blocks(text) ==
    LET m == Marks(text, 1)
    IN  {<<m[k], m[k + 1]>> : k \in {j \in 1..Len(m) - 1 : j % 2 = 1}}

\* the block b is opened with the tag lang, followed by whitespace
OpenedWith(text, lang, b) ==
    /\ StartsWithAt(text, lang, b[1] + 3)
    /\ b[1] + 3 + Len(lang) < b[2]
    /\ text[b[1] + 3 + Len(lang)] \in WS

\* the code of block b: what follows the tag and its whitespace
CodeOf(text, lang, b) ==
    SubSeq(text, SkipWS(text, b[1] + 3 + Len(lang)), b[2] - 1)

LangBlocks(text, lang) == {b \in Blocks(text) : OpenedWith(text, lang, b)}

FirstLangBlock(text, lang) ==
    CHOOSE b \in LangBlocks(text, lang) : \A c \in LangBlocks(text, lang) : b[1] <= c[1]

\* with no language asked, the content of any block, whatever its tag
AnyBlockCode(text) ==
    UNION {{SubSeq(text, j, b[2] - 1) : j \in b[1] + 3..b[2]} : b \in Blocks(text)}

HasQualifyingBlock(text, lang) ==
    IF lang # <<>> THEN LangBlocks(text, lang) # {} ELSE Blocks(text) # {}

\* C4: a text holding a fence opened with the requested language tag yields
\* the inner span of the first such fence (after the tag's whitespace, up to
\* the nearest closing fence).  Stated for texts whose markers are plain.
C4_FirstLangFence ==
    (/\ Done("OutputParser.parse_code")
     /\ PlainMarks(doc)
     /\ args.lang # <<>>
     /\ LangBlocks(doc, args.lang) # {})
        => /\ raised = "none"
           /\ ret = Str(CodeOf(doc, args.lang, FirstLangBlock(doc, args.lang)))

\* C5: with a language, the code returned on a match is the content of a
\* fence opened with that language, never text outside such a fence; with
\* no language, the content of any fence.  Stated for texts whose markers
\* are plain.
C5_OnlyFencedCode ==
    (/\ pc = "done"
     /\ PlainMarks(doc)
     /\ op \in {"OutputParser.parse_code", "CodeParser.parse_code"}
     /\ args.block = <<>>
     /\ log = <<>>)
        => IF args.lang # <<>>
           THEN \E b \in LangBlocks(doc, args.lang) : ret.v = CodeOf(doc, args.lang, b)
           ELSE op = "OutputParser.parse_code" => ret.v \in AnyBlockCode(doc)

\* C6: lenient mode, no qualifying fence in the text: the empty string, one
\* not-found log entry, no exception.  Stated for texts whose markers are
\* plain.
C6_LenientEmpty ==
    (/\ Done("OutputParser.parse_code")
     /\ PlainMarks(doc)
     /\ ~HasQualifyingBlock(doc, args.lang))
        => /\ raised = "none"
           /\ ret = Str(<<>>)
           /\ log = <<"No code block found">>

\* C7: strict mode, any block name: when no fence is found the original
\* input text comes back unmodified, and nothing is raised.
C7_StrictPassthrough ==
    (Done("CodeParser.parse_code") /\ log # <<>>)
        => (raised = "none" /\ ret = Str(doc))

Strict == op = "CodeParser.parse_code" /\ args.block = <<>>
Lenient == op = "OutputParser.parse_code"

\* C8 as stated: re-applying either extractor to its own output returns
\* that output unchanged.
C8_Idempotent ==
    (again /\ (Strict \/ Lenient)) => ret = prev.ret

\* C8 amended: the strict extractor (empty block) is idempotent; the lenient
\* extractor re-applied to its own output returns the empty string, so it
\* returns the output unchanged only when that output is empty.
C8_StrictIdempotentLenientEmpties ==
    again => /\ Strict => (raised = "none" /\ ret = prev.ret)
             /\ Lenient => (raised = "none" /\ ret = Str(<<>>))

C8_Witness ==
    /\ again
    /\ Strict
    /\ args.lang = Py
    /\ prev.doc = Fence \o Py \o <<"\n", "x">> \o Fence
    /\ prev.ret = Str(<<"x">>)
    /\ ret = Str(<<"x">>)

(***************************************************************************)
(* Structure extraction.                                                   *)
(***************************************************************************)
Opens(text, kind) == {i \in 1..Len(text) : <<text[i]>> = OpenBracket(kind)}
Closes(text, kind) == {i \in 1..Len(text) : <<text[i]>> = CloseBracket(kind)}
FirstOpen(text, kind) == CHOOSE i \in Opens(text, kind) : \A j \in Opens(text, kind) : i <= j
LastClose(text, kind) == CHOOSE i \in Closes(text, kind) : \A j \in Closes(text, kind) : i >= j

BracketFree(text) == \A i \in 1..Len(text) : text[i] \notin {"[", "]", "{", "}"}

Succeeded == raised = "none" /\ log = <<>>

\* C9: a successful extract_struct returns the literal parse of the slice
\* from the first opening bracket of the kind to the last closing one, of the
\* requested type; so a valid literal of that kind between bracket-free
\* prose is returned exactly.
C9_FirstOpenLastClose ==
    Done("OutputParser.extract_struct") =>
        /\ Succeeded =>
              /\ Opens(doc, args.kind) # {} /\ Closes(doc, args.kind) # {}
              /\ LET slice == SubSeq(doc, FirstOpen(doc, args.kind), LastClose(doc, args.kind))
                 IN  LiteralEval(slice) = Converted(ret)
              /\ ret.t = args.kind
        /\ \A i \in 1..Len(doc) : \A j \in i..Len(doc) :
              LET literal == LiteralEval(SubSeq(doc, i, j))
              IN  (/\ BracketFree(SubSeq(doc, 1, i - 1))
                   /\ BracketFree(SubSeq(doc, j + 1, Len(doc)))
                   /\ literal.err = "none"
                   /\ literal.val.t = args.kind)
                      => (Succeeded /\ ret = literal.val)

C9_Witness ==
    /\ Done("OutputParser.extract_struct")
    /\ args.kind = "list"
    /\ doc = <<"x", "[", "[", "]", "]">>
    /\ Succeeded
    /\ ret = VList(<<VList(<<>>)>>)

C11_NeverRaises ==
    Done("OutputParser.extract_struct") => raised = "none"

\* the call ended on one of its failure paths (each of them logs)
Failed == raised = "none" /\ log # <<>>

\* C12: a value returned on a failure path is never a value a successful
\* extraction returns: it is not of the requested type, and in particular
\* differs from what extracting the empty literal of the kind returns.
C12_Unambiguous ==
    (Done("OutputParser.extract_struct") /\ Failed) =>
        /\ ret.t # args.kind
        /\ LET empty == OutputParser_extract_struct(
                            OpenBracket(args.kind) \o CloseBracket(args.kind), args.kind)
           IN  (empty.raised = "none" /\ empty.log = <<>>) => ret # empty.ret

(***************************************************************************)
(* File lists and structured documents.                                    *)
(***************************************************************************)
\* a "[" with a "]" somewhere after it
HasBracketedSpan(text) ==
    \E i \in 1..Len(text) : \E j \in i + 1..Len(text) : text[i] = "[" /\ text[j] = "]"

\* C13: an extractor that ends on a fallback or empty value after a
\* non-fatal failure has logged it: parse_file_list, of OutputParser and of
\* CodeParser, given a text with no bracketed list returns its fallback with
\* at least one log entry.
C13_FallbackLogged ==
    (/\ Done("OutputParser.parse_file_list") \/ Done("CodeParser.parse_file_list")
     /\ raised = "none"
     /\ ~HasBracketedSpan(doc))
        => log # <<>>

\* the body of the one section of a document of SpecField, the typing
\* declared for its title and the value returned for it
FieldBody == SubSeq(doc, Len(Title) + 4, Len(doc))
FieldTyping == DictGet(args.mapping, Title)
FieldResult == DictGet(ret.v, Title)

\* C14: a str field whose body holds no fence comes back with its trimmed
\* body as value (the fence-stripping step keeps an unfenced body verbatim).
C14_UnfencedVerbatim ==
    (/\ Done("OutputParser.parse_data_with_mapping")
     /\ FieldTyping = "str"
     /\ ~Contains(FieldBody, Fence))
        => /\ raised = "none"
           /\ FieldResult = Str(Strip(FieldBody))

\* the body after fence stripping: the content of its fence, the trimmed
\* body itself when it holds none
FenceStripped(body) ==
    LET code == OutputParser_parse_code(Strip(body), <<>>)
    IN  IF code.log = <<>> THEN code.ret.v ELSE Strip(body)

\* what extract_struct with kind list yields on the fence-stripped body
BodyStruct == OutputParser_extract_struct(FenceStripped(FieldBody), "list")
BodyStructFound == BodyStruct.raised = "none" /\ BodyStruct.log = <<>>

\* C15: for a list-kind field whose fence-stripped body holds a list
\* literal, the value returned is the one extract_struct with kind list
\* yields on that body.
C15_ListAsExtractStruct ==
    (/\ Done("OutputParser.parse_data_with_mapping")
     /\ IsListTyping(FieldTyping)
     /\ BodyStructFound)
        => /\ raised = "none"
           /\ FieldResult = BodyStruct.ret

\* the non-empty lines of text, each trimmed, as a list of str
TrimmedLines(text) ==
    LET parts == SelectSeq(Split(text, <<"\n">>), LAMBDA line : Strip(line) # <<>>)
    IN  VList([i \in 1..Len(parts) |-> Str(Strip(parts[i]))])

\* C16: for a list-kind field whose body yields no parsable bracketed list
\* (no brackets, or a span that does not parse as a list), the value
\* returned is the sequence of the body's non-empty lines, each trimmed.
C16_LineFallback ==
    (/\ Done("OutputParser.parse_data_with_mapping")
     /\ IsListTyping(FieldTyping)
     /\ ~BodyStructFound)
        => /\ raised = "none"
           /\ FieldResult = TrimmedLines(FenceStripped(FieldBody))

\* the markers of a tag, as they are written in a text
OpenMarker(tag) == <<"[">> \o tag \o <<"]">>
CloseMarker(tag) == <<"[", "/">> \o tag \o <<"]">>

\* the title line and the body of a section, a section without line break
\* being all title
SecTitle(sec) == IF Contains(sec, <<"\n">>) THEN RawTitle(sec) ELSE sec
SecBody(sec) == IF Contains(sec, <<"\n">>) THEN RawBody(sec) ELSE <<>>

\* text is N >= 1 sections with non-empty, distinct titles, outside any wrapper
SplitsIntoSections(text) ==
    /\ ~Contains(text, OpenMarker(CONTENT))
    /\ 1 \in Headings(text)
    /\ \A h \in Headings(text) :
          /\ \A i \in 1..Len(SectionText(text, h)) : SectionText(text, h)[i] # "#"
          /\ NormalTitle(SecTitle(SectionText(text, h))) # <<>>
    /\ \A h1, h2 \in Headings(text) :
          h1 # h2 => NormalTitle(SecTitle(SectionText(text, h1)))
                       # NormalTitle(SecTitle(SectionText(text, h2)))

\* C17: parse_data_with_mapping of a document that splits into sections
\* returns an entry for every section title, and the value of each field is
\* the one computed from its own body and typing alone, whatever the other
\* sections hold; nothing in one section aborts the call.
C17_SiblingsUnaffected ==
    (Done("OutputParser.parse_data_with_mapping") /\ SplitsIntoSections(doc))
        => /\ raised = "none"
           /\ \A h \in Headings(doc) :
                 LET sec == SectionText(doc, h)
                     title == NormalTitle(SecTitle(sec))
                 IN  /\ title \in DictKeys(ret.v)
                     /\ DictGet(ret.v, title)
                          = FieldValue(OutputParser_parse_code(Strip(SecBody(sec)), <<>>),
                                       MappingGet(args.mapping, title))

\* the content between the first opening marker and the nearest closing
\* marker after it
Between(text, tag) ==
    LET from == Find(text, OpenMarker(tag), 1) + Len(OpenMarker(tag))
    IN  SubSeq(text, from, Find(text, CloseMarker(tag), from) - 1)

\* C18: when the opening marker and the closing marker of the tag both
\* occur in the text, extract_content returns, without raising, the trimmed
\* content between the first opening marker and the nearest closing marker
\* after it.
C18_ContentBetweenMarkers ==
    (/\ Done("OutputParser.extract_content")
     /\ Contains(doc, OpenMarker(args.tag))
     /\ Contains(doc, CloseMarker(args.tag)))
        => /\ raised = "none"
           /\ ret = Str(Strip(Between(doc, args.tag)))

\* C19: extract_content raises when the opening or the closing marker of
\* the tag is missing from the text, and parse_data_with_mapping lets that
\* error through when the document holds the opening CONTENT marker without
\* a closing one after it.
C19_MissingMarkerRaises ==
    /\ (/\ Done("OutputParser.extract_content")
        /\ ~(Contains(doc, OpenMarker(args.tag)) /\ Contains(doc, CloseMarker(args.tag))))
           => raised = "ValueError"
    /\ (/\ Done("OutputParser.parse_data_with_mapping")
        /\ Contains(doc, OpenMarker(CONTENT))
        /\ Find(doc, CloseMarker(CONTENT), Find(doc, OpenMarker(CONTENT), 1)) = 0)
           => raised = "ValueError"

HasSentinel(text) ==
    Contains(text, OpenMarker(CONTENT)) \/ Contains(text, CloseMarker(CONTENT))

\* the texts of a returned field value: the string, or the strings of a list
ValueTexts(value) ==
    IF value.t = "str" THEN {value.v}
    ELSE IF value.t \in {"list", "tuple"}
    THEN {value.v[i].v : i \in {j \in 1..Len(value.v) : value.v[j].t = "str"}}
    ELSE {}

\* the document is wrapped: an opening CONTENT marker and a closing one after it
Wrapped(text) ==
    /\ Contains(text, OpenMarker(CONTENT))
    /\ Find(text, CloseMarker(CONTENT), Find(text, OpenMarker(CONTENT), 1)) # 0

\* C20: for a wrapped document the wrapper is removed before the sections
\* are split: no title and no body returned by parse_data_with_mapping or
\* parse_data holds marker text of the wrapper.
C20_UnwrapBeforeSplit ==
    (/\ Done("OutputParser.parse_data_with_mapping") \/ Done("OutputParser.parse_data")
     /\ Wrapped(doc)
     /\ raised = "none")
        => \A i \in 1..Len(ret.v) :
              /\ ~HasSentinel(ret.v[i][1])
              /\ \A text \in ValueTexts(ret.v[i][2]) : ~HasSentinel(text)

\* the typing declared for the one field, "None" when the mapping has no entry
DeclaredTyping == MappingGet(args.mapping, Title)

\* C21: a field declared str comes back as its fence-stripped text, as it
\* is: quote characters and whatever precedes an "=" sign are kept (parse_str
\* is not applied).
C21_StringAsIs ==
    (Done("OutputParser.parse_data_with_mapping") /\ DeclaredTyping = "str")
        => /\ raised = "none"
           /\ FieldResult = Str(FenceStripped(FieldBody))

\* C24: a field with no list or string kind declared (no entry in the
\* mapping, or another declared type) comes back as its section body,
\* unmodified: no fence is stripped from it.
C24_RawUnmodified ==
    (/\ Done("OutputParser.parse_data_with_mapping")
     /\ DeclaredTyping # "str"
     /\ ~IsListTyping(DeclaredTyping))
        => /\ raised = "none"
           /\ FieldResult = Str(Strip(FieldBody))

\* C22: a call of parse_blocks, parse_code, extract_struct, extract_content,
\* parse_data_with_mapping, CodeParser.parse_block or CodeParser.parse_code
\* whose text is not a str (None, an int, a list, bytes) raises: it returns
\* no value and no fallback, and logs nothing before raising.
C22_NonStringRaises ==
    (pc = "done" /\ doc.t # "str")
        => /\ raised \in {"TypeError", "AttributeError"}
           /\ ret = None
           /\ log = <<>>

\* a list without the marker passes the membership test of
\* parse_data_with_mapping and is refused by the split that follows
C22_Witness ==
    /\ Done("OutputParser.parse_data_with_mapping")
    /\ doc.t = "list"
    /\ doc.v # <<>>
    /\ raised = "AttributeError"

\* the outcome of the call of task t: exception, value and its own log entries
TaskOutcome(t) ==
    [raised |-> calls[t].raised, ret |-> calls[t].ret,
     log |-> [j \in 1..Len(SelectSeq(log, LAMBDA e : e[1] = t))
                 |-> SelectSeq(log, LAMBDA e : e[1] = t)[j][2]]]

\* the outcome of the same call running alone
AloneOutcome(t) ==
    IF calls[t].op = "OutputParser.parse_data_with_mapping"
    THEN OutputParser_parse_data_with_mapping(calls[t].data, calls[t].mapping)
    ELSE OutputParser_parse_data(calls[t].data)

TaskDone(t) == calls[t].pc = "done"

\* C23: however the statements of two concurrent calls interleave, each
\* call ends with the outcome it has when run alone (same exception, same
\* value, same log entries), and no step of either call changes the document
\* or the mapping a caller passed.
C23_Stateless ==
    /\ [](\A t \in TaskIds : TaskDone(t) => TaskOutcome(t) = AloneOutcome(t))
    /\ [][\A t \in TaskIds : /\ calls'[t].data = calls[t].data
                           /\ calls'[t].mapping = calls[t].mapping
                           /\ calls'[t].op = calls[t].op]_vars

\* both calls are over, on different documents of two sections each, the
\* log entry of task 2 emitted before that of task 1
C23_Witness ==
    /\ calls # <<>>
    /\ \A t \in TaskIds : TaskDone(t)
    /\ calls[1].raised = "none" /\ Len(calls[1].ret.v) = 2
    /\ calls[2].raised = "none" /\ Len(calls[2].ret.v) = 2
    /\ calls[1].data # calls[2].data
    /\ Len(log) = 2 /\ log[1][1] = 2 /\ log[2][1] = 1

\* C25: when run has returned, code_doc.content is a code string, the
\* original content or the code a rewrite step of this run returned, and
\* never None, whatever the review results were.
C25_ContentIsCode ==
    (review # <<>> /\ review.pc = "returned")
        => /\ review.content # None
           /\ review.content.t = "str"
           /\ review.content \in {review.original} \cup review.rewritten

\* the first round whose review result contains LGTM, 0 when there is none
FirstLGTM ==
    IF \E j \in 1..Len(review.results) : Contains(review.results[j], LGTM)
    THEN CHOOSE j \in 1..Len(review.results) :
            /\ Contains(review.results[j], LGTM)
            /\ \A h \in 1..(j - 1) : ~Contains(review.results[h], LGTM)
    ELSE 0

\* C26: run returns at the first round whose result contains LGTM, with
\* the code under review in that round as content and no request after that
\* round's review; it performs at most k rounds; and a rewrite request is
\* issued only in a round whose result does not contain LGTM.
C26_ReturnsAtFirstLGTM ==
    review # <<>> =>
        /\ FirstLGTM # 0 =>
              /\ Len(review.results) = FirstLGTM
              /\ review.asks[Len(review.asks)] = <<"review", FirstLGTM>>
              /\ review.pc \in {"decide", "returned"}
              /\ review.pc = "returned" => review.content = review.reviewed[FirstLGTM]
        /\ Len(review.results) <= review.k
        /\ review.k = (IF review.code_review_k_times = 0 THEN 1 ELSE review.code_review_k_times)
        /\ \A j \in 1..Len(review.asks) :
              review.asks[j][1] = "rewrite"
                  => ~Contains(review.results[review.asks[j][2]], LGTM)

\* the fragments between "##" delimiters that are not blank
Fragments(text) ==
    SelectSeq(Split(text, <<"#", "#">>), LAMBDA frag : Strip(frag) # <<>>)

\* the title line of a fragment: what precedes its first line break
TitleLine(frag) == SplitFirst(frag, <<"\n">>)[1]

\* every non-blank fragment holds a line break and no title line ends with ":"
Splittable(text) ==
    \A j \in 1..Len(Fragments(text)) :
        /\ Contains(Fragments(text)[j], <<"\n">>)
        /\ \/ TitleLine(Fragments(text)[j]) = <<>>
           \/ TitleLine(Fragments(text)[j])[Len(TitleLine(Fragments(text)[j]))] # ":"

\* C27: on a document whose non-blank fragments all hold a line break and
\* whose title lines do not end with ":" (empty title lines included),
\* OutputParser.parse_blocks and CodeParser.parse_blocks both return, and
\* return the same mapping.
C27_SplittersAgree ==
    ((Done("OutputParser.parse_blocks") \/ Done("CodeParser.parse_blocks")) /\ Splittable(doc))
        => /\ raised = "none"
           /\ OutputParser_parse_blocks(doc).raised = "none"
           /\ ret = OutputParser_parse_blocks(doc).ret
           /\ ret = CodeParser_parse_blocks(doc).ret

\* the title of a section as the splitter called normalizes it: trimmed, and
\* for OutputParser with one trailing colon removed
TitleFor(name, sec) ==
    IF name = "OutputParser.parse_blocks" THEN NormalTitle(SecTitle(sec))
    ELSE Strip(SecTitle(sec))

\* the headings of the sections of text that carry the title
Carrying(name, text, title) ==
    {h \in Headings(text) : TitleFor(name, SectionText(text, h)) = title}

FirstOf(hs) == CHOOSE h \in hs : \A j \in hs : h <= j
LastOf(hs) == CHOOSE h \in hs : \A j \in hs : h >= j

\* text is made of sections with non-empty titles, two of them with the same title
HasRepeatedTitle(name, text) ==
    /\ 1 \in Headings(text)
    /\ \A h \in Headings(text) :
          /\ \A i \in 1..Len(SectionText(text, h)) : SectionText(text, h)[i] # "#"
          /\ TitleFor(name, SectionText(text, h)) # <<>>
    /\ \E h1, h2 \in Headings(text) :
          /\ h1 # h2
          /\ TitleFor(name, SectionText(text, h1)) = TitleFor(name, SectionText(text, h2))

\* C28: when sections of a document share a normalized title, parse_blocks
\* (of OutputParser and of CodeParser) returns one entry per distinct title,
\* holding the trimmed body of the last section with that title, the entries
\* standing in the order in which the titles first occur.
C28_LastWins ==
    ((Done("OutputParser.parse_blocks") \/ Done("CodeParser.parse_blocks"))
        /\ HasRepeatedTitle(op, doc))
        => /\ raised = "none"
           /\ DictKeys(ret.v) = {TitleFor(op, SectionText(doc, h)) : h \in Headings(doc)}
           /\ Len(ret.v) = Cardinality(DictKeys(ret.v))
           /\ \A i \in 1..Len(ret.v) :
                 ret.v[i][2] = Strip(SecBody(SectionText(doc, LastOf(Carrying(op, doc, ret.v[i][1])))))
           /\ \A i, j \in 1..Len(ret.v) :
                 i < j => FirstOf(Carrying(op, doc, ret.v[i][1]))
                            < FirstOf(Carrying(op, doc, ret.v[j][1]))

\* the trimmed title and the trimmed body of the j-th non-blank fragment
TitleAt(text, j) == Strip(SecTitle(Fragments(text)[j]))
BodyAt(text, j) == Strip(SecBody(Fragments(text)[j]))

\* the sections whose title contains block
Matching(block, text) ==
    {j \in 1..Len(Fragments(text)) : Contains(TitleAt(text, j), block)}

\* the sections titled as the first section whose title contains block
Namesakes(block, text) ==
    {j \in 1..Len(Fragments(text)) : TitleAt(text, j) = TitleAt(text, FirstOf(Matching(block, text)))}

\* the body of the first section, in document order, whose title contains block
FirstMatchBody(block, text) ==
    IF Matching(block, text) = {} THEN <<>>
    ELSE BodyAt(text, FirstOf(Matching(block, text)))

\* the body kept under the title of that section: that of its last namesake
KeptBody(block, text) ==
    IF Matching(block, text) = {} THEN <<>>
    ELSE BodyAt(text, LastOf(Namesakes(block, text)))

\* C29 as stated: parse_block returns the trimmed body of the first
\* section, in document order, whose title contains block ("" when there is
\* none), and parse_code with a block name searches that body only.
C29_FirstSectionBody ==
    /\ Done("CodeParser.parse_block")
          => raised = "none" /\ ret = Str(FirstMatchBody(args.block, doc))
    /\ (Done("CodeParser.parse_code") /\ args.block # <<>>)
          => /\ raised = "none"
             /\ ret = CodeParser_parse_code(<<>>, FirstMatchBody(args.block, doc), args.lang).ret

\* C29 amended: parse_block finds the first section, in document order,
\* whose title contains block and returns the trimmed body kept under that
\* title, which is the body of the last section bearing the same title (its
\* own body when the title is not repeated); "" when no title contains
\* block.  parse_code with a block name searches that body only.
C29_KeptSectionBody ==
    /\ Done("CodeParser.parse_block")
          => raised = "none" /\ ret = Str(KeptBody(args.block, doc))
    /\ (Done("CodeParser.parse_code") /\ args.block # <<>>)
          => /\ raised = "none"
             /\ ret = CodeParser_parse_code(<<>>, KeptBody(args.block, doc), args.lang).ret

\* parse_code with a block name has searched a document whose first section
\* containing the name has a namesake with another body, a fenced one
C29_Witness ==
    /\ Done("CodeParser.parse_code")
    /\ args.block = <<"a">>
    /\ FirstMatchBody(args.block, doc) # KeptBody(args.block, doc)
    /\ TitleAt(doc, FirstOf(Matching(args.block, doc))) = <<"a", "b">>
    /\ ret = Str(<<"z">>)
    /\ log = <<>>

====
